---------------------------- MODULE Spec2Model ----------------------------
(***************************************************************************)
(* A model of mailhog-rs (src/src/lib.rs): the MailHog retrieval client,   *)
(* the data model it decodes, and the test scenarios that drive it against *)
(* a provisioned capture-service instance.                                 *)
(*                                                                         *)
(* Four specifications share the variables:                                *)
(*   ClientSpec   - one call of the client against an arbitrary HTTP       *)
(*                  endpoint (any status, any body, transport failures);   *)
(*   ServiceSpec  - sends and calls against the capture service;           *)
(*   ConcurrentSpec - two interleaved calls and sends;                     *)
(*   ScenarioSpec - the control flow and scopes of the two test scenarios. *)
(*                                                                         *)
(* Text whose characters matter (addresses, subjects, bodies, queries) is  *)
(* a sequence of one-character strings; opaque text is a string.           *)
(***************************************************************************)
EXTENDS Integers, Sequences, FiniteSets, TLC

VARIABLES
    mh,            \* the MailHog client value: [base_url]
    calls,         \* per call slot: the state of one list_messages/search call
    store,         \* messages held by the capture service, in arrival order
    pageDefault,   \* the capture service's default page size
    clock,         \* the capture service's clock
    outbox,        \* the MsgDetails sent so far, in send order
    tpc,           \* scenario: position in the test function
    test,          \* scenario: which test function runs
    container,     \* scenario: the provisioned instance: none/running/removed
    owner,         \* scenario: which binding owns the Container value
    live,          \* scenario: the live bindings, in declaration order
    batch,         \* scenario: index of the search scenario's parameter set
    sent,          \* scenario: messages sent in the current batch
    num,           \* scenario: num_messages
    panicking      \* scenario: a panic is unwinding, or has unwound, the test

vars == <<mh, calls, store, pageDefault, clock, outbox,
          tpc, test, container, owner, live, batch, sent, num, panicking>>

clientVars == <<mh, calls>>
serverVars == <<store, pageDefault, clock, outbox>>
scenarioVars == <<tpc, test, container, owner, live, batch, sent, num, panicking>>

----------------------------------------------------------------------------
(* Bounds *)

MaxSent == 3        \* messages sent to one instance
MaxPage == 3        \* largest default page size the capture service may have
MaxBatchMessages == 2   \* largest num_messages of the search scenario

----------------------------------------------------------------------------
(* Option<T>, Result<T> *)

None == [kind |-> "None"]
Some(v) == [kind |-> "Some", value |-> v]

Ok(v) == [kind |-> "Ok", value |-> v]
Err(kind, status) == [kind |-> "Err", error |-> kind, status |-> status]

IsOk(r) == r.kind = "Ok"
IsErr(r) == r.kind = "Err"

----------------------------------------------------------------------------
(* Text helpers *)

IsPrefix(p, s) == Len(p) <= Len(s) /\ SubSeq(s, 1, Len(p)) = p

\* strings.Contains
Contains(s, sub) ==
    \E i \in 0..(Len(s) - Len(sub)) : SubSeq(s, i + 1, i + Len(sub)) = sub

\* strings.ToLower, on the alphabet of the model
LowerChar(ch) == CASE ch = "A" -> "a" [] ch = "B" -> "b" [] OTHER -> ch
ToLower(s) == [i \in DOMAIN s |-> LowerChar(s[i])]

Min(a, b) == IF a <= b THEN a ELSE b

----------------------------------------------------------------------------
(* The data model, lib.rs 16-103 *)

SearchKinds == {"From", "To", "Containing"}

\* #[serde(rename = ...)] on SearchKind
SearchKindTokenSwapped(kind) ==
    CASE kind = "From" -> "to" [] kind = "To" -> "from" [] OTHER -> "containing"

SearchKindToken(kind) ==
    CASE kind = "From" -> "from" [] kind = "To" -> "to" [] OTHER -> "containing"

\* impl Display for EmailAddr: "{}@{}", mailbox, domain
EmailAddrToString(a) == a.mailbox \o <<"@">> \o a.domain

\* impl Ord for Message: the created timestamps alone
MessageCmpReversed(a, b) ==
    IF b.created < a.created THEN "Less"
    ELSE IF b.created > a.created THEN "Greater" ELSE "Equal"

MessageCmp(a, b) ==
    IF a.created < b.created THEN "Less"
    ELSE IF a.created > b.created THEN "Greater" ELSE "Equal"

\* Vec::sort: a stable sort under Ord (insertion into the sorted prefix after
\* every element that is not Greater)
RECURSIVE InsertSorted(_, _)
InsertSorted(m, s) ==
    IF s = <<>> THEN <<m>>
    ELSE IF MessageCmp(m, Head(s)) = "Less" THEN <<m>> \o s
    ELSE <<Head(s)>> \o InsertSorted(m, Tail(s))

RECURSIVE SortMessages(_)
SortMessages(s) ==
    IF s = <<>> THEN <<>>
    ELSE InsertSorted(s[Len(s)], SortMessages(SubSeq(s, 1, Len(s) - 1)))

----------------------------------------------------------------------------
(* Decoding a response body, lib.rs 40-103 and .json() at 125/141 *)

\* A body is [kind |-> "garbage"] (not JSON), [kind |-> "array"] (JSON of
\* another shape) or [kind |-> "object", value |-> o], o a JSON object given
\* as a function from the keys it has.

HasKeys(o, keys) == keys \subseteq DOMAIN o

EmailAddrDecodable(o) == HasKeys(o, {"Mailbox", "Domain", "Params"})

\* EmailAddr: Relays is an Option, absent or null decodes to None
EmailAddrFromJson(o) ==
    [mailbox |-> o["Mailbox"], domain |-> o["Domain"], params |-> o["Params"],
     relays |-> IF "Relays" \in DOMAIN o THEN o["Relays"] ELSE None]

ContentDecodable(o) == HasKeys(o, {"Headers", "Body", "Size"})

ContentFromJson(o) ==
    [headers |-> o["Headers"], body |-> o["Body"], size |-> o["Size"],
     mime |-> IF "MIME" \in DOMAIN o THEN o["MIME"] ELSE None]

MessageDecodable(o) ==
    /\ HasKeys(o, {"ID", "From", "To", "Content", "Created"})
    /\ EmailAddrDecodable(o["From"])
    /\ \A i \in DOMAIN o["To"] : EmailAddrDecodable(o["To"][i])
    /\ ContentDecodable(o["Content"])

\* Created: an RFC 3339 local time with its offset, decoded to the UTC instant
MessageFromJson(o) ==
    [id |-> o["ID"],
     from |-> EmailAddrFromJson(o["From"]),
     to |-> [i \in DOMAIN o["To"] |-> EmailAddrFromJson(o["To"][i])],
     content |-> ContentFromJson(o["Content"]),
     created |-> o["Created"].local - o["Created"].offset]

\* A mutant: items without #[serde(default)], a required field
MessageListDecodableItemsRequired(o) ==
    /\ HasKeys(o, {"total", "start", "count", "items"})
    /\ \A i \in DOMAIN o["items"] : MessageDecodable(o["items"][i])

MessageListDecodable(o) ==
    /\ HasKeys(o, {"total", "start", "count"})
    /\ "items" \in DOMAIN o => \A i \in DOMAIN o["items"] : MessageDecodable(o["items"][i])

\* A mutant: items never read (#[serde(skip)])
MessageListFromJsonSkipItems(o) ==
    [total |-> o["total"], start |-> o["start"], count |-> o["count"],
     items |-> <<>>]

\* MessageList: total, start, count required; #[serde(default)] items
MessageListFromJson(o) ==
    [total |-> o["total"], start |-> o["start"], count |-> o["count"],
     items |-> IF "items" \in DOMAIN o
               THEN [i \in DOMAIN o["items"] |-> MessageFromJson(o["items"][i])]
               ELSE <<>>]

\* Response::json::<MessageList>()
json(body) ==
    IF body.kind = "object" /\ MessageListDecodable(body.value)
    THEN Ok(MessageListFromJson(body.value))
    ELSE Err("Decode", 0)

----------------------------------------------------------------------------
(* Building the request, lib.rs 113-143 *)

APPLICATION_JSON == "application/json"

\* The base URLs of the model: one that parses as an absolute http URL and
\* one that does not (format!("{}/api/v2/...") of it is a relative reference)
GoodBaseUrl == "http://localhost:8025"
BadBaseUrl == "localhost"
UrlParses(base) == base = GoodBaseUrl

\* form-urlencoding of one character, and of a text
PercentEncode(ch) == CASE ch = "@" -> "%40" [] ch = " " -> "+" [] OTHER -> ch
UrlEncode(s) == [i \in DOMAIN s |-> PercentEncode(s[i])]

\* serde_urlencoded of an Option<i64> field: None is skipped, Some(n) is
\* key=n.  A query value is a sequence of text tokens.
OptionPairZeroDefault(key, opt) ==
    IF opt.kind = "None" THEN << <<key, <<ToString(0)>> >> >>
    ELSE << <<key, <<ToString(opt.value)>> >> >>

OptionPair(key, opt) ==
    IF opt.kind = "None" THEN <<>>
    ELSE << <<key, <<ToString(opt.value)>> >> >>

\* .query(&params) of ListMessagesParams {start, limit}
ListQuery(p) == OptionPair("start", p.start) \o OptionPair("limit", p.limit)

\* .query(&params) of SearchParams {kind, query, start, limit}
SearchQuery(p) ==
    << <<"kind", <<SearchKindToken(p.kind)>> >>,
       <<"query", UrlEncode(p.query)>> >>
    \o OptionPair("start", p.start) \o OptionPair("limit", p.limit)

ListPathV1 == "/api/v1/messages"
ListPath == "/api/v2/messages"
SearchPath == "/api/v2/search"

Request(base, path, query) ==
    [method |-> "GET", base |-> base, path |-> path, query |-> query,
     accept |-> APPLICATION_JSON]

\* RequestBuilder::build(): the error of client.get(url) surfaces here
build(req) == IF UrlParses(req.base) THEN Ok(req) ELSE Err("Builder", 0)

----------------------------------------------------------------------------
(* One call, lib.rs 113-143 *)

Calls == {1, 2}

NoRequest == [kind |-> "None"]
NoOutcome == [kind |-> "None"]
NoResult == [kind |-> "None"]

IdleCall ==
    [pc |-> "idle", op |-> "none", params |-> None, request |-> NoRequest,
     nreq |-> 0, outcome |-> NoOutcome, served |-> 0, result |-> NoResult]

\* The call up to its first await: the request is built and, if that
\* succeeds, handed to Client::execute
Begin(op, params, req) ==
    LET built == build(req) IN
    IF IsErr(built)
    THEN [pc |-> "done", op |-> op, params |-> params, request |-> NoRequest,
          nreq |-> 0, outcome |-> NoOutcome, served |-> 0, result |-> built]
    ELSE [pc |-> "awaiting", op |-> op, params |-> params,
          request |-> Some(built.value), nreq |-> 1, outcome |-> NoOutcome,
          served |-> 0, result |-> NoResult]

\* Response::error_for_status(): an error for a 4xx or 5xx status
error_for_status_5xx_only(resp) ==
    IF resp.status >= 500 /\ resp.status <= 599
    THEN Err("Status", resp.status) ELSE Ok(resp)

error_for_status(resp) ==
    IF resp.status >= 400 /\ resp.status <= 599
    THEN Err("Status", resp.status) ELSE Ok(resp)

\* A mutant: a failed execute is tried again
CompletedRetrying(call) ==
    IF call.outcome.kind = "error"
    THEN [call EXCEPT !.pc = "awaiting", !.nreq = @ + 1, !.outcome = NoOutcome]
    ELSE [call EXCEPT !.pc = "done",
                      !.result = IF IsErr(error_for_status(call.outcome))
                                 THEN error_for_status(call.outcome)
                                 ELSE json(call.outcome.body)]

\* The rest of the call once execute has resolved:
\*   .await?  .error_for_status()?  .json().await?  Ok(..)
Completed(call) ==
    [call EXCEPT !.pc = "done",
                 !.result =
        IF call.outcome.kind = "error" THEN Err("Request", 0)
        ELSE IF IsErr(error_for_status(call.outcome))
        THEN error_for_status(call.outcome)
        ELSE json(call.outcome.body)]

CanBegin(c) == calls[c].pc = "idle"

\* MailHog::list_messages(&self, params)
list_messages(c, params) ==
    /\ CanBegin(c)
    /\ calls' = [calls EXCEPT ![c] =
                    Begin("list", params,
                          Request(mh.base_url, ListPath, ListQuery(params)))]
    /\ UNCHANGED <<mh, serverVars, scenarioVars>>

\* A mutant: the path is appended to the client's base URL in place
search_appending_to_base(c, params) ==
    /\ CanBegin(c)
    /\ mh' = [mh EXCEPT !.base_url = @ \o SearchPath]
    /\ calls' = [calls EXCEPT ![c] =
                    Begin("search", params,
                          Request(mh.base_url, SearchPath, SearchQuery(params)))]
    /\ UNCHANGED <<serverVars, scenarioVars>>

\* MailHog::search(&self, params)
search(c, params) ==
    /\ CanBegin(c)
    /\ calls' = [calls EXCEPT ![c] =
                    Begin("search", params,
                          Request(mh.base_url, SearchPath, SearchQuery(params)))]
    /\ UNCHANGED <<mh, serverVars, scenarioVars>>

\* The caller is done with the result of a call and may call again
Forget(c) ==
    /\ calls[c].pc = "done"
    /\ calls' = [calls EXCEPT ![c] = IdleCall]
    /\ UNCHANGED <<mh, serverVars, scenarioVars>>

\* The continuation after execute(..).await
Resume(c) ==
    /\ calls[c].pc = "resolved"
    /\ calls' = [calls EXCEPT ![c] = Completed(calls[c])]
    /\ UNCHANGED <<mh, serverVars, scenarioVars>>

----------------------------------------------------------------------------
(* Inputs *)

A1 == <<"a", "@", "x">>
A2 == <<"b", "a", "@", "x">>
A3 == <<"b", "@", "y">>
A4 == <<"A", "@", "x">>

OptInts == {None, Some(0), Some(1)}
Queries == {A1, A3, <<"o", "k">>}

ListParamsSet == [start : OptInts, limit : OptInts]
SearchParamsSet ==
    [kind : SearchKinds, query : Queries, start : OptInts, limit : OptInts]

Absent(p) == p.start = None /\ p.limit = None

----------------------------------------------------------------------------
(* The scenario's variables at rest (the specifications that do not run a  *)
(* scenario leave them so)                                                 *)

ScenarioIdle ==
    /\ tpc = "idle"
    /\ test = "none"
    /\ container = "none"
    /\ owner = "nobody"
    /\ live = <<>>
    /\ batch = 0
    /\ sent = 0
    /\ num = 0
    /\ panicking = FALSE

----------------------------------------------------------------------------
(* ClientSpec: one call against an arbitrary HTTP endpoint *)

StatusCodes == {200, 204, 304, 404, 500}

SampleWireAddr ==
    [Mailbox |-> <<"a">>, Domain |-> <<"x">>, Params |-> "", Relays |-> None]

SampleWireMessage ==
    [ID |-> "id-1", From |-> SampleWireAddr, To |-> <<SampleWireAddr>>,
     Content |-> [Headers |-> [Subject |-> << <<"h", "i">> >>],
                  Body |-> <<"o", "k">>, Size |-> 9, MIME |-> None],
     Created |-> [local |-> 1, offset |-> 0]]

\* The same without its ID
SampleWireMessageNoId ==
    [From |-> SampleWireAddr, To |-> <<SampleWireAddr>>,
     Content |-> [Headers |-> [Subject |-> << <<"h", "i">> >>],
                  Body |-> <<"o", "k">>, Size |-> 9, MIME |-> None],
     Created |-> [local |-> 1, offset |-> 0]]

JsonObject(o) == [kind |-> "object", value |-> o]

ArbitraryBodies ==
    { [kind |-> "garbage"],
      [kind |-> "array"],
      JsonObject([total |-> 0, start |-> 0, count |-> 0, items |-> <<>>]),
      JsonObject([total |-> 1, start |-> 0, count |-> 1,
                  items |-> <<SampleWireMessage>>]),
      JsonObject([total |-> 0, start |-> 0, count |-> 0]),
      JsonObject([total |-> 1, start |-> 0, count |-> 3]),
      JsonObject([total |-> 1, start |-> 0, count |-> 2,
                  items |-> <<SampleWireMessage, SampleWireMessage>>]),
      JsonObject([start |-> 0, count |-> 0, items |-> <<>>]),
      JsonObject([total |-> 1, start |-> 0, count |-> 1,
                  items |-> <<SampleWireMessageNoId>>]) }

\* execute(..) fails: no response is obtained
TransportError(c) ==
    /\ calls[c].pc = "awaiting"
    /\ calls' = [calls EXCEPT ![c].pc = "resolved",
                              ![c].outcome = [kind |-> "error"]]
    /\ UNCHANGED <<mh, serverVars, scenarioVars>>

\* execute(..) yields the response of whatever answers at the base URL
ArbitraryResponse(c) ==
    /\ calls[c].pc = "awaiting"
    /\ \E status \in StatusCodes, body \in ArbitraryBodies :
          calls' = [calls EXCEPT ![c].pc = "resolved",
                                 ![c].outcome = [kind |-> "response",
                                                 status |-> status,
                                                 body |-> body]]
    /\ UNCHANGED <<mh, serverVars, scenarioVars>>

ClientInit ==
    /\ mh \in {[base_url |-> GoodBaseUrl], [base_url |-> BadBaseUrl]}
    /\ calls = [c \in Calls |-> IdleCall]
    /\ store = <<>>
    /\ pageDefault = 1
    /\ clock = 0
    /\ outbox = <<>>
    /\ ScenarioIdle

ClientNext ==
    \/ \E p \in ListParamsSet : list_messages(1, p)
    \/ \E p \in SearchParamsSet : search(1, p)
    \/ TransportError(1)
    \/ ArbitraryResponse(1)
    \/ Resume(1)
    \/ Forget(1)

ClientSpec == ClientInit /\ [][ClientNext]_vars

----------------------------------------------------------------------------
(* The test fixtures and the SMTP path, lib.rs 167-217, 241-243, 270-279 *)

\* MsgDetails values as make_rand_messages produces them: alphanumeric
\* subject and body, addresses mailbox@domain
Fixtures ==
    { [from |-> A1, to |-> A3, subject |-> <<"h", "i">>, body |-> <<"o", "k">>],
      [from |-> A2, to |-> A3, subject |-> <<"y", "o">>,
       body |-> <<"o", "k", "o", "k", "o">>],
      [from |-> A3, to |-> A1, subject |-> <<"h", "i">>, body |-> <<"n", "o">>],
      [from |-> A4, to |-> A2, subject |-> <<"y", "o">>, body |-> <<"o", "k">>] }

SoftBreak == <<"=", "\r", "\n">>

\* normalize_body: b.replace("=\r\n", "")
RECURSIVE normalize_body(_)
normalize_body(b) ==
    IF b = <<>> THEN <<>>
    ELSE IF IsPrefix(SoftBreak, b)
    THEN normalize_body(SubSeq(b, Len(SoftBreak) + 1, Len(b)))
    ELSE <<Head(b)>> \o normalize_body(Tail(b))

----------------------------------------------------------------------------
(* The capture service (mailhog/mailhog v1.0.1, the image setup runs): its *)
(* SMTP intake and its two JSON endpoints                                  *)

\* The line length after which the mailer's quoted-printable encoding puts
\* a soft line break (76 in the encoding; scaled to the bodies of the model)
SoftBreakEvery == 3

RECURSIVE EncodeBody(_)
EncodeBody(b) ==
    IF Len(b) <= SoftBreakEvery THEN b
    ELSE SubSeq(b, 1, SoftBreakEvery) \o SoftBreak
         \o EncodeBody(SubSeq(b, SoftBreakEvery + 1, Len(b)))

\* mailbox and domain of an address text: split at its "@"
AtIndex(text) == CHOOSE i \in DOMAIN text : text[i] = "@"
WireAddr(text) ==
    [Mailbox |-> SubSeq(text, 1, AtIndex(text) - 1),
     Domain |-> SubSeq(text, AtIndex(text) + 1, Len(text)),
     Params |-> "",
     Relays |-> None]

WireAddrText(a) == a["Mailbox"] \o <<"@">> \o a["Domain"]

\* The message the service stores for the k-th mail it receives at time now
Stored(k, now, m) ==
    [ID |-> "id-" \o ToString(100 - k),
     From |-> WireAddr(m.from),
     To |-> <<WireAddr(m.to)>>,
     Content |-> [Headers |-> [Subject |-> <<m.subject>>,
                               From |-> <<m.from>>,
                               To |-> <<m.to>>],
                  Body |-> EncodeBody(m.body),
                  Size |-> Len(m.from) + Len(m.to) + Len(m.subject)
                           + Len(EncodeBody(m.body)) + 1,
                  MIME |-> None],
     Created |-> [local |-> now, offset |-> 0]]

\* mailer.send(..): the service stores the mail, stamped with its clock,
\* which has advanced since the previous mail
send(m) ==
    /\ Len(store) < MaxSent
    /\ clock' = clock + 1
    /\ store' = Append(store, Stored(Len(store) + 1, clock', m))
    /\ outbox' = Append(outbox, m)
    /\ UNCHANGED <<mh, calls, pageDefault, scenarioVars>>

\* url.Values.Get: the first value of a key, "" without one
QueryGet(query, key) ==
    IF \E i \in DOMAIN query : query[i][1] = key
    THEN query[CHOOSE i \in DOMAIN query :
                  /\ query[i][1] = key
                  /\ \A j \in 1..(i - 1) : query[j][1] # key][2]
    ELSE <<>>

PercentDecode(tok) == CASE tok = "%40" -> "@" [] tok = "+" -> " " [] OTHER -> tok
UrlDecode(v) == [i \in DOMAIN v |-> PercentDecode(v[i])]

\* strconv.ParseInt of a query value
ParseInt(v) ==
    IF Len(v) = 1 /\ \E n \in -9..99 : ToString(n) = v[1]
    THEN Some(CHOOSE n \in -9..99 : ToString(n) = v[1])
    ELSE None

\* getStartLimit: start 0 and the default page size, unless the query
\* carries a positive number
StartOf(query) ==
    LET n == ParseInt(QueryGet(query, "start")) IN
    IF n.kind = "Some" /\ n.value > 0 THEN n.value ELSE 0

LimitOf(query) ==
    LET n == ParseInt(QueryGet(query, "limit")) IN
    IF n.kind = "Some" /\ n.value > 0 THEN n.value ELSE pageDefault

HeaderValues(msg) ==
    LET h == msg["Content"]["Headers"] IN
    UNION {{h[k][i] : i \in DOMAIN h[k]} : k \in DOMAIN h}

HeaderContains(msg, name, q) ==
    LET h == msg["Content"]["Headers"] IN
    /\ name \in DOMAIN h
    /\ \E i \in DOMAIN h[name] : Contains(ToLower(h[name][i]), q)

\* Storage.Search: whether a stored message matches kind and query
Matches(msg, kind, query) ==
    LET q == ToLower(query) IN
    CASE kind = <<"from">> ->
            \/ Contains(ToLower(WireAddrText(msg["From"])), q)
            \/ HeaderContains(msg, "From", q)
      [] kind = <<"to">> ->
            \/ \E i \in DOMAIN msg["To"] :
                  Contains(ToLower(WireAddrText(msg["To"][i])), q)
            \/ HeaderContains(msg, "To", q)
      [] kind = <<"containing">> ->
            \/ Contains(ToLower(msg["Content"]["Body"]), q)
            \/ \E v \in HeaderValues(msg) : Contains(ToLower(v), q)
      [] OTHER -> FALSE

RECURSIVE Reverse(_)
Reverse(s) == IF s = <<>> THEN <<>> ELSE Reverse(Tail(s)) \o <<Head(s)>>

\* One page of the matching messages: newest first, from offset start, at
\* most limit of them
Page(matching, start, limit) ==
    LET r == Reverse(matching) IN
    IF start >= Len(r) THEN <<>>
    ELSE SubSeq(r, start + 1, Min(Len(r), start + limit))

ValidKinds == {<<"from">>, <<"to">>, <<"containing">>}

\* The service's answer to a request, its page in the order perm
Reorder(page, perm) == [i \in DOMAIN page |-> page[perm[i]]]

PageOrders(n) == {f \in [1..n -> 1..n] : \A i, j \in 1..n : f[i] = f[j] => i = j}

\* What the service finds for a request: the status, and for a query the
\* total, the start offset and the page (newest first)
Found(status, total, start, page) ==
    [status |-> status, total |-> total, start |-> start, page |-> page]

\* The routes of the service's HTTP API
MessagesRoute == "/api/v2/messages"
SearchRoute == "/api/v2/search"
MessagesRouteV1 == "/api/v1/messages"

Handle(req) ==
    IF req.path = MessagesRoute
    THEN Found(200, Len(store), StartOf(req.query),
               Page(store, StartOf(req.query), LimitOf(req.query)))
    ELSE IF req.path = SearchRoute
    THEN IF QueryGet(req.query, "kind") \notin ValidKinds
         THEN Found(400, 0, 0, <<>>)
         ELSE LET kind == QueryGet(req.query, "kind")
                  query == UrlDecode(QueryGet(req.query, "query"))
                  matching == SelectSeq(store, LAMBDA m : Matches(m, kind, query))
              IN Found(200, Len(matching), StartOf(req.query),
                       Page(matching, StartOf(req.query), LimitOf(req.query)))
    ELSE IF req.path = MessagesRouteV1
    THEN Found(299, 0, 0, <<>>)
    ELSE Found(404, 0, 0, <<>>)

\* The response: the JSON of the page, its items in the order perm
Answer(found, perm) ==
    IF found.status = 200
    THEN [status |-> 200,
          body |-> JsonObject([total |-> found.total,
                               start |-> found.start,
                               count |-> Len(found.page),
                               items |-> Reorder(found.page, perm)])]
    ELSE IF found.status = 299
    THEN [status |-> 200, body |-> [kind |-> "array"]]
    ELSE [status |-> found.status, body |-> [kind |-> "garbage"]]

\* execute(..) yields the capture service's response
MailHogServe(c) ==
    /\ calls[c].pc = "awaiting"
    /\ \E perm \in PageOrders(Len(Handle(calls[c].request.value).page)) :
          LET a == Answer(Handle(calls[c].request.value), perm) IN
          calls' = [calls EXCEPT ![c].pc = "resolved",
                                 ![c].served = Len(store),
                                 ![c].outcome = [kind |-> "response",
                                                 status |-> a.status,
                                                 body |-> a.body]]
    /\ UNCHANGED <<mh, serverVars, scenarioVars>>

ServiceInit ==
    /\ mh = [base_url |-> GoodBaseUrl]
    /\ calls = [c \in Calls |-> IdleCall]
    /\ store = <<>>
    /\ pageDefault \in 1..MaxPage
    /\ clock = 0
    /\ outbox = <<>>
    /\ ScenarioIdle

ServiceNext ==
    \/ \E m \in Fixtures : send(m)
    \/ \E p \in ListParamsSet : list_messages(1, p)
    \/ \E p \in SearchParamsSet : search(1, p)
    \/ MailHogServe(1)
    \/ Resume(1)
    \/ Forget(1)

ServiceSpec == ServiceInit /\ [][ServiceNext]_vars

----------------------------------------------------------------------------
(* Properties of one call (ClientSpec) *)

Done(c) == calls[c].pc = "done"

HasResponse(call) == call.outcome.kind = "response"

\* The wire shape of section 6: the three numbers, and items, when present,
\* each with its five members
WireShaped(body) ==
    /\ body.kind = "object"
    /\ {"total", "start", "count"} \subseteq DOMAIN body.value
    /\ "items" \in DOMAIN body.value =>
          \A i \in DOMAIN body.value["items"] :
             {"ID", "From", "To", "Content", "Created"}
                \subseteq DOMAIN body.value["items"][i]

SameNumbers(list, o) ==
    /\ list.total = o["total"]
    /\ list.start = o["start"]
    /\ list.count = o["count"]
    /\ Len(list.items) = IF "items" \in DOMAIN o THEN Len(o["items"]) ELSE 0

\* The outcome of a finished call by the first stage that failed, statusFails
\* telling whether its response's status counts as a failure
OutcomeByStage(call, statusFails) ==
    LET r == call.result IN
    IF ~HasResponse(call)
    THEN IsErr(r) /\ r.error \in {"Builder", "Request"}
    ELSE IF statusFails
    THEN IsErr(r) /\ r.error = "Status" /\ r.status = call.outcome.status
    ELSE IF ~WireShaped(call.outcome.body)
    THEN IsErr(r) /\ r.error = "Decode"
    ELSE IsOk(r) /\ SameNumbers(r.value, call.outcome.body.value)

FailedAtSomeStage(call) ==
    \/ ~HasResponse(call)
    \/ call.outcome.status \in 400..599
    \/ ~WireShaped(call.outcome.body)

\* C6: a call hands at most one request to the transport; a call that failed
\* at any stage ends in an error that carries no MessageList, having issued
\* nothing further; and no step changes the client value.
C6_NoRetryNoFallback ==
    /\ [](\A c \in Calls :
            /\ calls[c].nreq <= 1
            /\ Done(c) /\ FailedAtSomeStage(calls[c]) =>
                  /\ IsErr(calls[c].result)
                  /\ "value" \notin DOMAIN calls[c].result)
    /\ [][mh' = mh]_vars

C6_Witness ==
    \E c \in Calls :
       /\ Done(c)
       /\ calls[c].outcome.kind = "error"
       /\ calls[c].nreq = 1
       /\ calls[c].result = Err("Request", 0)

\* C9, as stated: every list returned successfully has count = length of
\* items and count <= total.
C9_CountMatchesItems ==
    \A c \in Calls :
       Done(c) /\ IsOk(calls[c].result) =>
          /\ calls[c].result.value.count = Len(calls[c].result.value.items)
          /\ calls[c].result.value.count <= calls[c].result.value.total

WellFormedPayload(o) ==
    /\ "items" \in DOMAIN o
    /\ o["count"] = Len(o["items"])
    /\ o["count"] <= o["total"]

\* C9, amended: a list returned successfully has the numbers of the payload
\* and as many items as the payload, none when the payload has no items
\* member (such a payload is returned, whatever its count); so count =
\* length of items and count <= total hold of it when the payload is
\* well-formed.
C9_PayloadPassedThrough ==
    \A c \in Calls :
       /\ Done(c) /\ IsOk(calls[c].result) =>
             /\ HasResponse(calls[c])
             /\ calls[c].outcome.body.kind = "object"
             /\ SameNumbers(calls[c].result.value, calls[c].outcome.body.value)
             /\ WellFormedPayload(calls[c].outcome.body.value) =>
                   /\ calls[c].result.value.count
                         = Len(calls[c].result.value.items)
                   /\ calls[c].result.value.count
                         <= calls[c].result.value.total
       /\ /\ Done(c)
          /\ HasResponse(calls[c])
          /\ calls[c].outcome.status \notin 400..599
          /\ WireShaped(calls[c].outcome.body)
          /\ "items" \notin DOMAIN calls[c].outcome.body.value
          => /\ IsOk(calls[c].result)
             /\ calls[c].result.value.items = <<>>

C9_Witness ==
    \E c \in Calls :
       /\ Done(c)
       /\ IsOk(calls[c].result)
       /\ "items" \notin DOMAIN calls[c].outcome.body.value
       /\ calls[c].result.value.count = 3
       /\ calls[c].result.value.items = <<>>

QueryKeys(q) == {q[i][1] : i \in DOMAIN q}

\* An optional field is in the query exactly when present, once, and reads
\* back as its value
SentIffPresent(q, key, opt) ==
    /\ key \in QueryKeys(q) <=> opt.kind = "Some"
    /\ Cardinality({i \in DOMAIN q : q[i][1] = key}) <= 1
    /\ opt.kind = "Some" =>
          /\ QueryGet(q, key) # <<>>
          /\ ParseInt(QueryGet(q, key)) = opt

\* C10: the query string of every issued request has start (limit) exactly
\* when the field is present, with its value, an explicit 0 as 0; an absent
\* field is not sent; search sends kind, as its lowercase token, and query.
C10_QueryOmitsAbsentFields ==
    \A c \in Calls :
       calls[c].request.kind = "Some" =>
          LET q == calls[c].request.value.query
              p == calls[c].params
          IN /\ SentIffPresent(q, "start", p.start)
             /\ SentIffPresent(q, "limit", p.limit)
             /\ calls[c].op = "list" => QueryKeys(q) \subseteq {"start", "limit"}
             /\ calls[c].op = "search" =>
                   /\ QueryGet(q, "kind") =
                         (CASE p.kind = "From" -> <<"from">>
                            [] p.kind = "To" -> <<"to">>
                            [] p.kind = "Containing" -> <<"containing">>)
                   /\ "query" \in QueryKeys(q)
                   /\ UrlDecode(QueryGet(q, "query")) = p.query

C10_Witness ==
    \E c \in Calls :
       /\ calls[c].request.kind = "Some"
       /\ calls[c].op = "search"
       /\ calls[c].params.start = Some(0)
       /\ calls[c].params.limit = None
       /\ QueryGet(calls[c].request.value.query, "start") = <<"0">>
       /\ "limit" \notin QueryKeys(calls[c].request.value.query)

----------------------------------------------------------------------------
(* Properties of retrieval from the capture service (ServiceSpec) *)

ListOf(c) == calls[c].result.value

\* The mails the service held when it served call c, as they were sent
SentBefore(c) == SubSeq(outbox, 1, calls[c].served)

\* C1, as stated: after N mails, listing with start and limit absent
\* returns total = N, count = N, start = 0 and N items.
C1_ListReturnsAllSent ==
    \A c \in Calls :
       Done(c) /\ calls[c].op = "list" /\ Absent(calls[c].params) =>
          /\ IsOk(calls[c].result)
          /\ ListOf(c).total = calls[c].served
          /\ ListOf(c).count = calls[c].served
          /\ ListOf(c).start = 0
          /\ Len(ListOf(c).items) = calls[c].served

\* C1, amended: after N mails, listing with start and limit absent returns
\* total = N, start = 0 and one page: count = length of items = the smaller
\* of N and the service's default page size.
C1_ListReturnsFirstPage ==
    \A c \in Calls :
       Done(c) /\ calls[c].op = "list" /\ Absent(calls[c].params) =>
          /\ IsOk(calls[c].result)
          /\ ListOf(c).total = calls[c].served
          /\ ListOf(c).start = 0
          /\ ListOf(c).count = Len(ListOf(c).items)
          /\ ListOf(c).count = Min(calls[c].served, pageDefault)

C1_Witness ==
    \E c \in Calls :
       /\ Done(c) /\ calls[c].op = "list" /\ Absent(calls[c].params)
       /\ calls[c].served = 2
       /\ IsOk(calls[c].result)
       /\ ListOf(c).total = 2 /\ ListOf(c).count = 2
       /\ Len(ListOf(c).items) = 2

EmptyPage(list) == list.total = 0 /\ list.count = 0 /\ list.items = <<>>

PartyOf(m, kind) == IF kind = "From" THEN m.from ELSE m.to

\* The positions, among the mails held when c was served, whose sender
\* (recipient) is the query, and those whose sender (recipient) holds the
\* query as a part, letter case aside
ExactSubset(c) ==
    {i \in 1..calls[c].served :
        PartyOf(outbox[i], calls[c].params.kind) = calls[c].params.query}

PartSubset(c) ==
    {i \in 1..calls[c].served :
        Contains(ToLower(PartyOf(outbox[i], calls[c].params.kind)),
                 ToLower(calls[c].params.query))}

ExactAddressSearch(c) ==
    /\ Done(c) /\ calls[c].op = "search"
    /\ calls[c].params.kind \in {"From", "To"}
    /\ Absent(calls[c].params)
    /\ \E m \in Fixtures :
          PartyOf(m, calls[c].params.kind) = calls[c].params.query

ItemParties(msg, kind) ==
    IF kind = "From" THEN {EmailAddrToString(msg.from)}
    ELSE {EmailAddrToString(msg.to[i]) : i \in DOMAIN msg.to}

ReturnsExactSubset(c) ==
    /\ IsOk(calls[c].result)
    /\ ListOf(c).total = Cardinality(ExactSubset(c))
    /\ ListOf(c).count = Cardinality(ExactSubset(c))
    /\ Len(ListOf(c).items) = Cardinality(ExactSubset(c))
    /\ \A i \in DOMAIN ListOf(c).items :
          calls[c].params.query
             \in ItemParties(ListOf(c).items[i], calls[c].params.kind)

\* C3, as stated: a search by sender (recipient) with an address as the
\* query and start and limit absent returns the stored mails with that
\* sender (recipient): total = count = number of items = their number, and
\* every item has it.
C3_SearchReturnsExactSubset ==
    \A c \in Calls : ExactAddressSearch(c) => ReturnsExactSubset(c)

\* C3, amended: it does when no stored mail of another sender (recipient)
\* holds the query as a part of its address, letter case aside, and the
\* subset is no larger than the service's default page size.
C3_SearchReturnsExactSubsetInPage ==
    \A c \in Calls :
       /\ ExactAddressSearch(c)
       /\ PartSubset(c) = ExactSubset(c)
       /\ Cardinality(ExactSubset(c)) <= pageDefault
       => ReturnsExactSubset(c)

C3_Witness ==
    \E c \in Calls :
       /\ ExactAddressSearch(c)
       /\ calls[c].params.kind = "From"
       /\ Cardinality(ExactSubset(c)) = 2
       /\ calls[c].served = 3
       /\ PartSubset(c) = ExactSubset(c)
       /\ ReturnsExactSubset(c)

\* A search that retrieved every mail sent before it was served
RetrievedAll(c) ==
    /\ Done(c) /\ calls[c].op = "search" /\ Absent(calls[c].params)
    /\ IsOk(calls[c].result)
    /\ Len(ListOf(c).items) = calls[c].served
    /\ {ListOf(c).items[i].id : i \in DOMAIN ListOf(c).items}
          = {store[k]["ID"] : k \in 1..calls[c].served}

\* The comparison of tests::search_messages (lib.rs 395-411) of one
\* retrieved message with one sent
SameMail(message, m) ==
    /\ EmailAddrToString(message.from) = m.from
    /\ Len(message.to) = 1
    /\ EmailAddrToString(message.to[1]) = m.to
    /\ normalize_body(message.content.body) = m.body
    /\ "Subject" \in DOMAIN message.content.headers
    /\ message.content.headers["Subject"] = <<m.subject>>

\* C4: when the N mails sent one after another are retrieved by a search,
\* the items sorted by the Message ordering pair up, position by position,
\* with the mails in send order: same sender, sole recipient, Subject and
\* normalized body, in whatever order the page came.
C4_SortedItemsPairWithSendOrder ==
    \A c \in Calls :
       RetrievedAll(c) =>
          \A i \in 1..calls[c].served :
             SameMail(SortMessages(ListOf(c).items)[i], SentBefore(c)[i])

C4_Witness ==
    \E c \in Calls :
       /\ RetrievedAll(c)
       /\ calls[c].served = 3
       /\ ListOf(c).items[1].created > ListOf(c).items[2].created
       /\ \E i \in 1..3 :
             Len(ListOf(c).items[i].content.body) > Len(normalize_body(ListOf(c).items[i].content.body))
       /\ \A i \in 1..3 :
             SameMail(SortMessages(ListOf(c).items)[i], SentBefore(c)[i])

----------------------------------------------------------------------------
(* ConcurrentSpec: calls on one client interleaved with each other and     *)
(* with sends                                                              *)

ConcurrentListParams == {[start |-> None, limit |-> None]}

ConcurrentSearchParams ==
    {[kind |-> "From", query |-> A1, start |-> None, limit |-> None],
     [kind |-> "To", query |-> A3, start |-> None, limit |-> None]}

\* The mails sent while calls are in flight: those to the recipient b@y
ConcurrentFixtures == {m \in Fixtures : m.to = A3}

ConcurrentNext ==
    \/ \E m \in ConcurrentFixtures : send(m)
    \/ \E c \in Calls, p \in ConcurrentListParams : list_messages(c, p)
    \/ \E c \in Calls, p \in ConcurrentSearchParams : search(c, p)
    \/ \E c \in Calls : MailHogServe(c)
    \/ \E c \in Calls : Resume(c)
    \/ \E c \in Calls : Forget(c)

ConcurrentSpec == ServiceInit /\ [][ConcurrentNext]_vars

\* The result of call c from the mails held when it was served and its own
\* parameters alone
AloneTotal(c) ==
    IF calls[c].op = "list" THEN calls[c].served
    ELSE Cardinality(PartSubset(c))

AloneResult(c) ==
    /\ IsOk(calls[c].result)
    /\ ListOf(c).total = AloneTotal(c)
    /\ ListOf(c).start = 0
    /\ ListOf(c).count = Min(AloneTotal(c), pageDefault)
    /\ Len(ListOf(c).items) = ListOf(c).count
    /\ \A i \in DOMAIN ListOf(c).items :
          /\ \E k \in 1..calls[c].served : store[k]["ID"] = ListOf(c).items[i].id
          /\ calls[c].op = "search" =>
                \E a \in ItemParties(ListOf(c).items[i], calls[c].params.kind) :
                   Contains(ToLower(a), ToLower(calls[c].params.query))

\* C8: no step of a call changes the client's base URL or the stored
\* messages (only a send adds one, and it touches no call), and every call,
\* however interleaved, returns what its own parameters select from the
\* messages held when its request was served.
C8_CallsReadOnlyAndIndependent ==
    /\ [][/\ mh' = mh
          /\ store' # store =>
                /\ calls' = calls
                /\ SubSeq(store', 1, Len(store)) = store]_vars
    /\ [](\A c \in Calls : Done(c) => AloneResult(c))

C8_Witness ==
    \E c, d \in Calls :
       /\ c # d
       /\ Done(c) /\ calls[c].served = 1 /\ AloneResult(c)
       /\ calls[c].op = "list" /\ ListOf(c).total = 1
       /\ calls[d].pc = "resolved" /\ calls[d].served = 2
       /\ calls[d].op = "search"
       /\ Len(store) = 3

----------------------------------------------------------------------------
(* ScenarioSpec: the two test functions, lib.rs 219-239 and 245-413: their *)
(* steps, the bindings each scope holds, and what leaving a scope - at its *)
(* end or by a panic - drops.  A Container that is dropped removes the     *)
(* instance it stands for.                                                 *)

Tests == {"list_messages", "search_messages"}

\* The (MakeMessagesParams, SearchParams) pairs of search_messages
NumBatches == 4

\* A panic at the current step: the scopes unwind
Panic ==
    /\ tpc' = "unwinding"
    /\ panicking' = TRUE
    /\ UNCHANGED <<test, container, owner, live, batch, sent, num>>

\* A step that either goes on to next or panics (an unwrap of an Err, a
\* failed assert)
Fallible(at, next) ==
    /\ tpc = at
    /\ \/ /\ tpc' = next
          /\ UNCHANGED <<test, container, owner, live, batch, sent, num, panicking>>
       \/ Panic
    /\ UNCHANGED <<mh, calls, serverVars>>

\* #[tokio::test] async fn list_messages() / search_messages()
StartTest ==
    /\ tpc = "idle"
    /\ \E t \in Tests : test' = t
    /\ tpc' = "docker"
    /\ UNCHANGED <<container, owner, live, batch, sent, num, panicking>>
    /\ UNCHANGED <<mh, calls, serverVars>>

\* let cli = Cli::docker();
CliDocker ==
    /\ tpc = "docker"
    /\ live' = <<"cli">>
    /\ tpc' = "setup_run"
    /\ UNCHANGED <<test, container, owner, batch, sent, num, panicking>>
    /\ UNCHANGED <<mh, calls, serverVars>>

\* setup: let container = cli.run(..);
SetupRun ==
    /\ tpc = "setup_run"
    /\ \/ /\ container' = "running"
          /\ owner' = "setup.container"
          /\ live' = Append(live, "setup.container")
          /\ tpc' = "setup_mailer"
          /\ UNCHANGED <<test, batch, sent, num, panicking>>
       \/ Panic
    /\ UNCHANGED <<mh, calls, serverVars>>

\* setup: let mailer = SmtpTransport::relay("localhost").unwrap()...build();
SetupMailer ==
    /\ tpc = "setup_mailer"
    /\ \/ /\ live' = Append(live, "setup.mailer")
          /\ tpc' = "setup_return"
          /\ UNCHANGED <<test, container, owner, batch, sent, num, panicking>>
       \/ Panic
    /\ UNCHANGED <<mh, calls, serverVars>>

\* A mutant: setup returns a TestEnv without the container, which is
\* dropped with setup's scope
SetupReturnDroppingContainer ==
    /\ tpc = "setup_return"
    /\ live' = <<"cli", "env">>
    /\ owner' = "dropped"
    /\ container' = "removed"
    /\ tpc' = "moves"
    /\ UNCHANGED <<test, batch, sent, num, panicking>>
    /\ UNCHANGED <<mh, calls, serverVars>>

\* setup: TestEnv { _container: container, mh: .., mailer }, bound to env
SetupReturn ==
    /\ tpc = "setup_return"
    /\ live' = <<"cli", "env">>
    /\ owner' = "env"
    /\ tpc' = "moves"
    /\ UNCHANGED <<test, container, batch, sent, num, panicking>>
    /\ UNCHANGED <<mh, calls, serverVars>>

\* let mh = env.mh; let mailer = env.mailer;  env keeps _container
Moves ==
    /\ tpc = "moves"
    /\ live' = live \o <<"mh", "mailer">>
    /\ tpc' = IF test = "list_messages" THEN "list1" ELSE "gen"
    /\ UNCHANGED <<test, container, owner, batch, sent, num, panicking>>
    /\ UNCHANGED <<mh, calls, serverVars>>

\* list_messages: the first retrieval, its asserts, the send, the second
\* retrieval, its asserts
Retrieve1 == Fallible("list1", "assert1")
Assert1 == Fallible("assert1", "send")
SendOne == Fallible("send", "list2")
Retrieve2 == Fallible("list2", "assert2")
Assert2 == Fallible("assert2", "scope_end")

\* search_messages: let num_messages = thread_rng().gen_range(1..50);
Gen ==
    /\ tpc = "gen"
    /\ \E n \in 1..MaxBatchMessages : num' = n
    /\ batch' = 1
    /\ sent' = 0
    /\ tpc' = "batch_send"
    /\ UNCHANGED <<test, container, owner, live, panicking>>
    /\ UNCHANGED <<mh, calls, serverVars>>

\* for m in &outbox { mailer.send(..).unwrap(); }
BatchSend ==
    /\ tpc = "batch_send"
    /\ \/ /\ sent' = sent + 1
          /\ tpc' = IF sent + 1 = num THEN "batch_search" ELSE "batch_send"
          /\ UNCHANGED <<test, container, owner, live, batch, num, panicking>>
       \/ Panic
    /\ UNCHANGED <<mh, calls, serverVars>>

\* let mut message_list = mh.search(search_params).await.unwrap();
BatchSearch == Fallible("batch_search", "batch_assert")

\* the asserts of one batch, then the next batch or the end of the function
BatchAssert ==
    /\ tpc = "batch_assert"
    /\ \/ /\ batch < NumBatches
          /\ batch' = batch + 1
          /\ sent' = 0
          /\ tpc' = "batch_send"
          /\ UNCHANGED <<test, container, owner, live, num, panicking>>
       \/ /\ batch = NumBatches
          /\ tpc' = "scope_end"
          /\ UNCHANGED <<test, container, owner, live, batch, sent, num, panicking>>
       \/ Panic
    /\ UNCHANGED <<mh, calls, serverVars>>

Leaving == tpc \in {"scope_end", "unwinding"}

\* Leaving the scopes drops the live bindings, the last declared first;
\* dropping the binding that owns the Container removes the instance
DropNext ==
    /\ Leaving
    /\ live # <<>>
    /\ live' = SubSeq(live, 1, Len(live) - 1)
    /\ IF live[Len(live)] = owner
       THEN container' = "removed" /\ owner' = "dropped"
       ELSE UNCHANGED <<container, owner>>
    /\ UNCHANGED <<tpc, test, batch, sent, num, panicking>>
    /\ UNCHANGED <<mh, calls, serverVars>>

\* The test function has returned, or its panic has left it
Finish ==
    /\ Leaving
    /\ live = <<>>
    /\ tpc' = "ended"
    /\ UNCHANGED <<test, container, owner, live, batch, sent, num, panicking>>
    /\ UNCHANGED <<mh, calls, serverVars>>

ScenarioInit ==
    /\ mh = [base_url |-> GoodBaseUrl]
    /\ calls = [c \in Calls |-> IdleCall]
    /\ store = <<>>
    /\ pageDefault = 1
    /\ clock = 0
    /\ outbox = <<>>
    /\ ScenarioIdle

ScenarioNext ==
    \/ StartTest
    \/ CliDocker
    \/ SetupRun
    \/ SetupMailer
    \/ SetupReturn
    \/ Moves
    \/ Retrieve1
    \/ Assert1
    \/ SendOne
    \/ Retrieve2
    \/ Assert2
    \/ Gen
    \/ BatchSend
    \/ BatchSearch
    \/ BatchAssert
    \/ DropNext
    \/ Finish

\* The test thread runs on: a step that can be taken is taken
ScenarioSpec == ScenarioInit /\ [][ScenarioNext]_vars /\ WF_vars(ScenarioNext)

\* The positions at which a send or a retrieval is about to run
IoPositions == {"list1", "send", "list2", "batch_send", "batch_search"}

\* C7: in every run of a scenario, to its end or to a panic at any step, the
\* instance setup created is removed in the end and is not running once the
\* scenario has ended; and it is running whenever a send or a retrieval is
\* about to run.
C7_InstanceScopedToScenario ==
    /\ [](tpc \in IoPositions => container = "running")
    /\ [](tpc = "ended" => container # "running")
    /\ (container = "running") ~> (container = "removed")

C7_Witness ==
    /\ tpc = "ended"
    /\ panicking
    /\ test = "search_messages"
    /\ batch = 2 /\ sent = 1
    /\ container = "removed"

============================================================================
